---- MODULE Spec2Model ----
(***************************************************************************)
(* Model of the bounded POI collector of backend/collector.py: the retry   *)
(* loop of one work unit (_fetch_one_tile), the batch loop of collect_pois *)
(* with its asyncio.gather barrier, the place_id-keyed merge and the       *)
(* incremental flush to the pois table (db.upsert_pois).                    *)
(***************************************************************************)
EXTENDS Integers, Sequences, FiniteSets, TLC

\* ---------------------------------------------------------------- bounds

\* Number of tile centers compute_tile_centers returns (the batch loop of
\* collect_pois only uses the sequence's length and order).
NumTiles == 2

\* config.COLLECTOR_CONCURRENCY (10 in config.py), scaled to the model.
COLLECTOR_CONCURRENCY == 1

\* collect_pois: BATCH_SIZE, tiles per batch (50 in the source), scaled.
BATCH_SIZE == 1

\* compute_profile: the length of the nearest list, nearby_pois[:10], scaled.
NEAREST_MAX == 2

\* ------------------------------------------------------ program constants

\* config.COLLECTOR_RETRY_MAX
COLLECTOR_RETRY_MAX == 3

\* config.POI_TYPES and config.POI_KEYWORDS, cut to one entry each.
POI_TYPES == <<"school">>

POI_KEYWORDS == <<"housing society">>

None == "None"

\* collector.KEYWORD_TO_TYPE.get(keyword)
KEYWORD_TO_TYPE(kw) ==
  CASE kw = "corporate office" -> "corporate_office"
    [] kw = "coworking space" -> "coworking_space"
    [] kw = "IT park" -> "it_park"
    [] kw = "residential apartment" -> "residential"
    [] kw = "housing society" -> "residential"
    [] kw = "hotel" -> "hotel"
    [] OTHER -> None

\* ------------------------------------------------------------ work units

\* collect_pois: searches_per_tile = len(POI_TYPES) + len(keywords)
searches_per_tile == Len(POI_TYPES) + Len(POI_KEYWORDS)

\* collect_pois: total_tiles = len(tile_centers)
total_tiles == NumTiles

\* collect_pois: total_calls
total_calls == total_tiles * searches_per_tile

\* A work unit is a position in the submission order of the whole run:
\* tile by tile, within a tile the type searches, then the keyword searches.
Units == 1..total_calls

TileOf(u) == ((u - 1) \div searches_per_tile) + 1

SearchOf(u) == ((u - 1) % searches_per_tile) + 1

\* The keyword argument of unit u's _fetch_one_tile call (None for a type
\* search).
KeywordOf(u) ==
  IF SearchOf(u) <= Len(POI_TYPES) THEN None
  ELSE POI_KEYWORDS[SearchOf(u) - Len(POI_TYPES)]

\* _fetch_one_tile: inject_type = KEYWORD_TO_TYPE.get(keyword) if keyword else None
InjectTypeOf(u) ==
  IF KeywordOf(u) = None THEN None ELSE KEYWORD_TO_TYPE(KeywordOf(u))

Min(a, b) == IF a <= b THEN a ELSE b

\* collect_pois: the units built for tile_centers[batch_start:batch_end],
\* batch_end = min(batch_start + BATCH_SIZE, total_tiles).
BatchUnits(bs) ==
  {u \in Units : bs < TileOf(u) /\ TileOf(u) <= Min(bs + BATCH_SIZE, total_tiles)}

\* The batches are numbered 0, 1, ... in the order of the loop.
BatchOf(u) == (TileOf(u) - 1) \div BATCH_SIZE

\* --------------------------------------------------- the external service

\* Raw results of the places service: identity key, name, tags, rating.
RawA1 == [place_id |-> "p1", name |-> "n1", types |-> <<"school">>, rating |-> 1]

RawA2 == [place_id |-> "p1", name |-> "n2", types |-> <<"residential">>, rating |-> 2]

RawB == [place_id |-> "p2", name |-> "n1", types |-> <<"store">>, rating |-> 1]

\* A result without place_id: result.get("place_id", "") gives "".
RawE == [place_id |-> "", name |-> "n1", types |-> <<>>, rating |-> 1]

\* The result lists an OK response may carry.
Payloads == {<<RawA1>>, <<RawE, RawA2, RawB>>}

\* What one client.get may end with: an HTTP 200 body with a status, a
\* non-200 code, httpx.TimeoutException, or another exception.
FailureKinds ==
  {"ZERO_RESULTS", "OVER_QUERY_LIMIT", "REQUEST_DENIED", "INVALID_REQUEST",
   "HTTP_ERROR", "TIMEOUT", "NETWORK_ERROR"}

Responses ==
  {[kind |-> "OK", results |-> p] : p \in Payloads}
    \cup {[kind |-> k, results |-> <<>>] : k \in FailureKinds}

Range(s) == {s[i] : i \in DOMAIN s}

\* Mutant: the synthetic category is added after the raw tags.
_parse_place_append(result, inject_type) ==
  [place_id |-> result.place_id,
   name |-> result.name,
   types |-> IF inject_type # None /\ inject_type \notin Range(result.types)
             THEN result.types \o <<inject_type>>
             ELSE result.types,
   rating |-> result.rating]

\* collector._parse_place
_parse_place(result, inject_type) ==
  [place_id |-> result.place_id,
   name |-> result.name,
   types |-> IF inject_type # None /\ inject_type \notin Range(result.types)
             THEN <<inject_type>> \o result.types
             ELSE result.types,
   rating |-> result.rating]

\* [_parse_place(p, inject_type) for p in data.get("results", [])]
ParseResults(results, inject_type) ==
  [i \in DOMAIN results |-> _parse_place(results[i], inject_type)]

\* ------------------------------------------------------------------ state

VARIABLES
  phase,        \* collect_pois: "idle" (between batches), "gather", "done",
                \* "raised" (an exception left collect_pois), "direct"
  batch_start,  \* collect_pois: first tile index of the next batch (0-based)
  tasks,        \* the work units created so far:
                \* unit -> [state, retries, wait, result]
  sem,          \* asyncio.Semaphore value (free admission slots)
  all_pois,     \* collect_pois: place_id -> POI record
  pois_table,   \* db: the pois table, place_id -> row
  calls_done,   \* collect_pois: calls_done
  ret,          \* collect_pois: returned count (-1 until it returns)
  lookups,      \* observer: client.get calls issued per unit
  waited,       \* observer: seconds slept per unit
  timeouts,     \* observer: TimeoutExceptions seen per unit
  ratelimits,   \* observer: OVER_QUERY_LIMIT responses seen per unit
  answer,       \* observer: the last response per unit
  grid_point,   \* compute_profile: the grid_point argument
  nearby_pois,  \* compute_profile: the nearby_pois argument
  profile,      \* compute_profile: the returned profile (None before the call)
  grid_table,   \* db: the grid_points table, in the order get_all_grid_points reads it
  profiles,     \* db: the profiles table, grid_point_id -> row
  pstate,       \* compute_all_profiles: "idle" (not running) or "loop"
  poi_coords,   \* compute_all_profiles: the POIs read by the (last) call
  idx,          \* compute_all_profiles: grid points handled by the loop
  batch,        \* compute_all_profiles: batch, the profiles not yet written
  count,        \* compute_all_profiles: count
  returned,     \* compute_all_profiles: the last returned count (-1 before)
  runs,         \* observer: calls of compute_all_profiles that returned
  before,       \* observer: the profiles table when the current call began
  bbox,         \* compute_tile_centers: width_m and height_m of the bounding box
  tile_centers, \* compute_tile_centers: the returned centers (<<>> before)
  grid_args,    \* generate_grid: the arguments of the calls
  points,       \* generate_grid: the list the last call returned
  prev_points,  \* observer: the list the call before the last returned
  grid_calls,   \* observer: calls of generate_grid made
  keyword,      \* _fetch_one_tile called for one response: the keyword argument
  raw_results,  \* the results of the OK response of that call
  parsed,       \* the list that call returned (<<>> before)
  arrival       \* observer: the units in the order in which they returned

obs == <<lookups, waited, timeouts, ratelimits, answer>>

\* The collector's variables.
collector_vars == <<phase, batch_start, tasks, sem, all_pois, calls_done, ret>>

\* The variables of one compute_profile call.
call_vars == <<grid_point, nearby_pois, profile>>

\* The variables of compute_all_profiles and of the tables it uses.
profiler_vars ==
  <<grid_table, profiles, pstate, poi_coords, idx, batch, count, returned, runs, before>>

\* The variables of one compute_tile_centers call.
tile_vars == <<bbox, tile_centers>>

\* The variables of the generate_grid calls.
grid_vars == <<grid_args, points, prev_points, grid_calls>>

\* The variables of the parsing of one response.
parse_vars == <<keyword, raw_results, parsed>>

vars == <<phase, batch_start, tasks, sem, all_pois, pois_table, calls_done, ret,
          lookups, waited, timeouts, ratelimits, answer,
          grid_point, nearby_pois, profile,
          grid_table, profiles, pstate, poi_coords, idx, batch, count, returned, runs, before,
          bbox, tile_centers, grid_args, points, prev_points, grid_calls,
          keyword, raw_results, parsed, arrival>>

EmptyMap == [p \in {} |-> 0]

Terminal == {"succeeded", "denied", "exhausted"}

\* Units inside "async with semaphore".
Holding == {"inflight", "sleep_rl", "sleep_to"}

NewTask == [state |-> "pending", retries |-> 0, wait |-> 0, result |-> <<>>]

Holders == {u \in DOMAIN tasks : tasks[u].state \in Holding}

Sleepers == {u \in DOMAIN tasks : tasks[u].state \in {"sleep_rl", "sleep_to"}}

InFlight == {u \in DOMAIN tasks : tasks[u].state = "inflight"}

NoAnswer == [kind |-> None, results |-> <<>>]

ObsInit ==
  /\ lookups = [u \in Units |-> 0]
  /\ waited = [u \in Units |-> 0]
  /\ timeouts = [u \in Units |-> 0]
  /\ ratelimits = [u \in Units |-> 0]
  /\ answer = [u \in Units |-> NoAnswer]

\* The profile variable before compute_profile has returned.
NoProfile == [grid_point_id |-> None]

\* No compute_profile call is under way.
CallIdle ==
  /\ grid_point = None
  /\ nearby_pois = <<>>
  /\ profile = NoProfile

\* compute_all_profiles is not running and has not run.
ProfilerIdle ==
  /\ grid_table = <<>>
  /\ profiles = EmptyMap
  /\ pstate = "idle"
  /\ poi_coords = <<>>
  /\ idx = 0
  /\ batch = <<>>
  /\ count = 0
  /\ returned = -1
  /\ runs = 0
  /\ before = EmptyMap

\* No compute_tile_centers call is under way.
TilesIdle ==
  /\ bbox = [width_m |-> 0, height_m |-> 0]
  /\ tile_centers = <<>>

\* generate_grid has not been called.
GridIdle ==
  /\ grid_args = None
  /\ points = <<>>
  /\ prev_points = <<>>
  /\ grid_calls = 0

\* No response is being parsed.
ParseIdle ==
  /\ keyword = None
  /\ raw_results = <<>>
  /\ parsed = <<>>

\* The order in which the units return is not recorded.
OrderIdle == arrival = <<>>

\* A row a previous collection left in the pois table.
StaleRow == [place_id |-> "p1", name |-> "n0", types |-> <<"park">>, rating |-> 0]

\* The pois table when collect_pois starts: empty after init_db, or holding
\* rows of an earlier collection (POST /collect?force=true).
InitialTables == {EmptyMap, [p \in {"p1"} |-> StaleRow]}

\* collect_pois up to the batch loop.
Init ==
  /\ phase = "idle"
  /\ batch_start = 0
  /\ tasks = EmptyMap
  /\ sem = COLLECTOR_CONCURRENCY
  /\ all_pois = EmptyMap
  /\ pois_table \in InitialTables
  /\ calls_done = 0
  /\ ret = -1
  /\ ObsInit
  /\ CallIdle
  /\ ProfilerIdle
  /\ TilesIdle
  /\ GridIdle
  /\ ParseIdle
  /\ OrderIdle

\* ------------------------------------------------------- _fetch_one_tile

\* The loop test "while retries <= config.COLLECTOR_RETRY_MAX".
LoopContinues(retries) == retries <= COLLECTOR_RETRY_MAX

\* A return or raise of the coroutine: its locals are gone.
EndTask(st, res) == [state |-> st, retries |-> 0, wait |-> 0, result |-> res]

\* Mutant: the lookup is issued without waiting for a free slot.
AcquireUngated(u) ==
  /\ u \in DOMAIN tasks
  /\ tasks[u].state = "pending"
  /\ sem' = sem - 1
  /\ tasks' = [tasks EXCEPT ![u].state = "inflight"]
  /\ UNCHANGED <<phase, batch_start, all_pois, pois_table, calls_done, ret>>

\* "async with semaphore" is entered and client.get is issued.
Acquire(u) ==
  /\ u \in DOMAIN tasks
  /\ tasks[u].state = "pending"
  /\ sem > 0
  /\ sem' = sem - 1
  /\ tasks' = [tasks EXCEPT ![u].state = "inflight"]
  /\ UNCHANGED <<phase, batch_start, all_pois, pois_table, calls_done, ret>>

\* Mutant: a timeout sleeps and retries without counting against the budget.
AfterResponseTimeoutUncounted(t, r, inject_type) ==
  CASE r.kind = "OK" -> EndTask("succeeded", ParseResults(r.results, inject_type))
    [] r.kind = "ZERO_RESULTS" -> EndTask("succeeded", <<>>)
    [] r.kind = "OVER_QUERY_LIMIT" ->
         [t EXCEPT !.state = "sleep_rl", !.wait = 2 ^ t.retries]
    [] r.kind = "TIMEOUT" -> [t EXCEPT !.state = "sleep_to", !.wait = 1]
    [] r.kind = "NETWORK_ERROR" -> EndTask("raised", <<>>)
    [] OTHER -> EndTask("denied", <<>>)

\* Mutant: the backoff after a rate-limited response grows linearly.
AfterResponseLinearBackoff(t, r, inject_type) ==
  CASE r.kind = "OK" -> EndTask("succeeded", ParseResults(r.results, inject_type))
    [] r.kind = "ZERO_RESULTS" -> EndTask("succeeded", <<>>)
    [] r.kind = "OVER_QUERY_LIMIT" ->
         [t EXCEPT !.state = "sleep_rl", !.wait = t.retries + 1]
    [] r.kind = "TIMEOUT" ->
         [t EXCEPT !.state = "sleep_to", !.retries = t.retries + 1, !.wait = 1]
    [] r.kind = "NETWORK_ERROR" -> EndTask("raised", <<>>)
    [] OTHER -> EndTask("denied", <<>>)

\* Mutant: an unrecognized status is retried like a rate-limited one.
AfterResponseRetryUnknown(t, r, inject_type) ==
  CASE r.kind = "OK" -> EndTask("succeeded", ParseResults(r.results, inject_type))
    [] r.kind = "ZERO_RESULTS" -> EndTask("succeeded", <<>>)
    [] r.kind \in {"OVER_QUERY_LIMIT", "INVALID_REQUEST"} ->
         [t EXCEPT !.state = "sleep_rl", !.wait = 2 ^ t.retries]
    [] r.kind = "TIMEOUT" ->
         [t EXCEPT !.state = "sleep_to", !.retries = t.retries + 1, !.wait = 1]
    [] r.kind = "NETWORK_ERROR" -> EndTask("raised", <<>>)
    [] OTHER -> EndTask("denied", <<>>)

\* Mutant: the wait after a timeout doubles like the rate-limit backoff.
AfterResponseTimeoutDoubling(t, r, inject_type) ==
  CASE r.kind = "OK" -> EndTask("succeeded", ParseResults(r.results, inject_type))
    [] r.kind = "ZERO_RESULTS" -> EndTask("succeeded", <<>>)
    [] r.kind = "OVER_QUERY_LIMIT" ->
         [t EXCEPT !.state = "sleep_rl", !.wait = 2 ^ t.retries]
    [] r.kind = "TIMEOUT" ->
         [t EXCEPT !.state = "sleep_to", !.retries = t.retries + 1, !.wait = 2 ^ t.retries]
    [] r.kind = "NETWORK_ERROR" -> EndTask("raised", <<>>)
    [] OTHER -> EndTask("denied", <<>>)

\* The task record after client.get ended with response r.
AfterResponse(t, r, inject_type) ==
  CASE r.kind = "OK" -> EndTask("succeeded", ParseResults(r.results, inject_type))
    [] r.kind = "ZERO_RESULTS" -> EndTask("succeeded", <<>>)
    [] r.kind = "OVER_QUERY_LIMIT" ->
         [t EXCEPT !.state = "sleep_rl", !.wait = 2 ^ t.retries]
    [] r.kind = "TIMEOUT" ->
         [t EXCEPT !.state = "sleep_to", !.retries = t.retries + 1, !.wait = 1]
    [] r.kind = "NETWORK_ERROR" -> EndTask("raised", <<>>)
    [] OTHER -> EndTask("denied", <<>>)

\* Mutant: the slot is given back before the backoff sleep.
SemAfterResponseFreed(s, r) == s + 1

\* The semaphore after the response: a return or an exception leaves
\* "async with", a backoff sleeps inside it.
SemAfterResponse(s, r) ==
  IF r.kind \in {"OVER_QUERY_LIMIT", "TIMEOUT"} THEN s ELSE s + 1

\* client.get ends with response r.
Respond(u, r) ==
  /\ u \in DOMAIN tasks
  /\ tasks[u].state = "inflight"
  /\ tasks' = [tasks EXCEPT ![u] = AfterResponse(tasks[u], r, InjectTypeOf(u))]
  /\ sem' = SemAfterResponse(sem, r)
  /\ UNCHANGED <<phase, batch_start, all_pois, pois_table, calls_done, ret>>

\* Mutant: the rate-limited branch sleeps without counting the retry.
AfterSleepUncounted(t) ==
  IF LoopContinues(t.retries)
  THEN [t EXCEPT !.state = "pending", !.wait = 0]
  ELSE EndTask("exhausted", <<>>)

\* The task record when asyncio.sleep ends: the rate-limited branch counts
\* the retry after the sleep, "async with" is left and the loop test runs.
AfterSleep(t) ==
  LET n == IF t.state = "sleep_rl" THEN t.retries + 1 ELSE t.retries
  IN IF LoopContinues(n)
     THEN [t EXCEPT !.state = "pending", !.retries = n, !.wait = 0]
     ELSE EndTask("exhausted", <<>>)

\* asyncio.sleep ends.
Wake(u) ==
  /\ u \in DOMAIN tasks
  /\ tasks[u].state \in {"sleep_rl", "sleep_to"}
  /\ tasks' = [tasks EXCEPT ![u] = AfterSleep(tasks[u])]
  /\ sem' = sem + 1
  /\ UNCHANGED <<phase, batch_start, all_pois, pois_table, calls_done, ret>>

\* ---------------------------------------------------------- collect_pois

\* The next batch may be built: the loop has tiles left.
StartBatch ==
  /\ phase = "idle"
  /\ batch_start < total_tiles
  /\ tasks' = [u \in DOMAIN tasks \cup BatchUnits(batch_start) |->
                 IF u \in DOMAIN tasks THEN tasks[u] ELSE NewTask]
  /\ phase' = "gather"
  /\ UNCHANGED <<batch_start, sem, all_pois, pois_table, calls_done, ret>>

\* Mutant: a repeated place_id keeps the name of the record it replaces.
PutKeepName(m, k, v) ==
  [p \in DOMAIN m \cup {k} |->
     IF p # k THEN m[p] ELSE IF k \in DOMAIN m THEN [v EXCEPT !.name = m[k].name] ELSE v]

\* all_pois[poi["place_id"]] = poi
Put(m, k, v) == [p \in DOMAIN m \cup {k} |-> IF p = k THEN v ELSE m[p]]

\* "for poi in batch: if poi["place_id"]: all_pois[...] = poi", from the
\* i-th record of one unit's list on.
RECURSIVE MergeList(_, _, _)
MergeList(m, list, i) ==
  IF i > Len(list) THEN m
  ELSE MergeList(IF list[i].place_id # "" THEN Put(m, list[i].place_id, list[i]) ELSE m,
                 list, i + 1)

\* Mutant: the lists are folded in the order in which the units returned.
RECURSIVE MergeResultsAsCompleted(_, _, _)
MergeResultsAsCompleted(m, t, us) ==
  IF us = {} THEN m
  ELSE LET pos(x) == CHOOSE k \in DOMAIN arrival : arrival[k] = x
           u == CHOOSE x \in us : \A y \in us : pos(x) <= pos(y)
       IN MergeResultsAsCompleted(MergeList(m, t[u].result, 1), t, us \ {u})

\* "for batch in results": gather returns the lists in submission order,
\* whatever the order the units ended in.
RECURSIVE MergeResults(_, _, _)
MergeResults(m, t, us) ==
  IF us = {} THEN m
  ELSE LET u == CHOOSE x \in us : \A y \in us : x <= y
       IN MergeResults(MergeList(m, t[u].result, 1), t, us \ {u})

\* db.upsert_pois(list(all_pois.values())): INSERT OR REPLACE of whole rows.
upsert_pois(table, pois) ==
  [p \in DOMAIN table \cup DOMAIN pois |-> IF p \in DOMAIN pois THEN pois[p] ELSE table[p]]

\* Mutant: nothing is written between the batches.
FlushSkipped(table, pois) == table

\* "if all_pois: db.upsert_pois(...)"
Flush(table, pois) == IF DOMAIN pois # {} THEN upsert_pois(table, pois) ELSE table

\* Mutant: the wait ends with the first unit that returns.
BarrierOpenFirst(t, us) == \E u \in us : t[u].state \in Terminal

\* Mutant: the wait counts a unit sleeping in backoff as returned.
BarrierOpenIgnoresBackoff(t, us) ==
  \A u \in us : t[u].state \in Terminal \cup {"sleep_rl", "sleep_to"}

\* asyncio.gather returns once every unit of the batch has returned.
BarrierOpen(t, us) == \A u \in us : t[u].state \in Terminal

\* await asyncio.gather(*tasks) returns: merge, count, flush, next batch or
\* return.
GatherDone ==
  /\ phase = "gather"
  /\ BarrierOpen(tasks, BatchUnits(batch_start))
  /\ LET merged == MergeResults(all_pois, tasks, BatchUnits(batch_start))
         next == batch_start + BATCH_SIZE
     IN /\ all_pois' = merged
        /\ pois_table' = Flush(pois_table, merged)
        /\ calls_done' = calls_done + Cardinality(BatchUnits(batch_start))
        /\ batch_start' = next
        /\ phase' = IF next < total_tiles THEN "idle" ELSE "done"
        /\ ret' = IF next < total_tiles THEN ret ELSE Cardinality(DOMAIN merged)
  /\ UNCHANGED <<tasks, sem>>

\* A unit raised: gather re-raises into collect_pois, which has no handler;
\* the other units of the batch are not cancelled.
GatherRaise ==
  /\ phase = "gather"
  /\ \E u \in BatchUnits(batch_start) : tasks[u].state = "raised"
  /\ phase' = "raised"
  /\ UNCHANGED <<batch_start, tasks, sem, all_pois, pois_table, calls_done, ret>>

\* ------------------------------------------------------------- observers

ObsAcquire(u) ==
  /\ lookups' = [lookups EXCEPT ![u] = @ + 1]
  /\ UNCHANGED <<waited, timeouts, ratelimits, answer>>

ObsRespond(u, r) ==
  /\ answer' = [answer EXCEPT ![u] = r]
  /\ timeouts' = [timeouts EXCEPT ![u] = IF r.kind = "TIMEOUT" THEN @ + 1 ELSE @]
  /\ ratelimits' = [ratelimits EXCEPT ![u] = IF r.kind = "OVER_QUERY_LIMIT" THEN @ + 1 ELSE @]
  /\ UNCHANGED <<lookups, waited>>

ObsWake(u) ==
  /\ waited' = [waited EXCEPT ![u] = @ + tasks[u].wait]
  /\ UNCHANGED <<lookups, timeouts, ratelimits, answer>>

\* ---------------------------------------------------------- a whole run

\* The steps of the program with the observers left alone.

AcquireStep == \E u \in Units : Acquire(u) /\ UNCHANGED <<obs, call_vars, profiler_vars, tile_vars, grid_vars, parse_vars, arrival>>

RespondStep == \E u \in Units : \E r \in Responses : Respond(u, r) /\ UNCHANGED <<obs, call_vars, profiler_vars, tile_vars, grid_vars, parse_vars, arrival>>

WakeStep == \E u \in Units : Wake(u) /\ UNCHANGED <<obs, call_vars, profiler_vars, tile_vars, grid_vars, parse_vars, arrival>>

StartBatchStep == StartBatch /\ UNCHANGED <<obs, call_vars, profiler_vars, tile_vars, grid_vars, parse_vars, arrival>>

GatherDoneStep == GatherDone /\ UNCHANGED <<obs, call_vars, profiler_vars, tile_vars, grid_vars, parse_vars, arrival>>

GatherRaiseStep == GatherRaise /\ UNCHANGED <<obs, call_vars, profiler_vars, tile_vars, grid_vars, parse_vars, arrival>>

Next ==
  \/ StartBatchStep
  \/ AcquireStep
  \/ RespondStep
  \/ WakeStep
  \/ GatherDoneStep
  \/ GatherRaiseStep

Spec == Init /\ [][Next]_vars

\* ------------------------------------- work units called on their own

\* The search units of the first tile, each a direct call of
\* _fetch_one_tile sharing one semaphore passed by the caller.
DirectUnits == {u \in Units : TileOf(u) = 1}

InitUnit ==
  /\ phase = "direct"
  /\ batch_start = 0
  /\ tasks = [u \in DirectUnits |-> NewTask]
  /\ sem \in 1..COLLECTOR_CONCURRENCY
  /\ all_pois = EmptyMap
  /\ pois_table = EmptyMap
  /\ calls_done = 0
  /\ ret = -1
  /\ ObsInit
  /\ CallIdle
  /\ ProfilerIdle
  /\ TilesIdle
  /\ GridIdle
  /\ ParseIdle
  /\ OrderIdle

UnitAcquire == \E u \in Units : Acquire(u) /\ ObsAcquire(u) /\ UNCHANGED <<call_vars, profiler_vars, tile_vars, grid_vars, parse_vars, arrival>>

UnitRespond == \E u \in Units : \E r \in Responses : Respond(u, r) /\ ObsRespond(u, r) /\ UNCHANGED <<call_vars, profiler_vars, tile_vars, grid_vars, parse_vars, arrival>>

UnitWake == \E u \in Units : Wake(u) /\ ObsWake(u) /\ UNCHANGED <<call_vars, profiler_vars, tile_vars, grid_vars, parse_vars, arrival>>

NextUnit == UnitAcquire \/ UnitRespond \/ UnitWake

UnitSpec == InitUnit /\ [][NextUnit]_vars

\* The event loop runs every ready coroutine: a response or timeout arrives,
\* a sleep ends, and asyncio.Semaphore wakes its waiters in FIFO order.
UnitFairness ==
  \A u \in Units :
    /\ SF_vars(Acquire(u) /\ UNCHANGED <<obs, call_vars, profiler_vars, tile_vars, grid_vars, parse_vars, arrival>>)
    /\ WF_vars(\E r \in Responses : Respond(u, r) /\ UNCHANGED <<obs, call_vars, profiler_vars, tile_vars, grid_vars, parse_vars, arrival>>)
    /\ WF_vars(Wake(u) /\ UNCHANGED <<obs, call_vars, profiler_vars, tile_vars, grid_vars, parse_vars, arrival>>)

NextUnitFair == AcquireStep \/ RespondStep \/ WakeStep

FairUnitSpec == InitUnit /\ [][NextUnitFair]_vars /\ UnitFairness

\* ------------------------------- a run with the order of return recorded

\* The responses of the service in these runs: each unit is answered once.
OrderResponses == {r \in Responses : r.kind \in {"OK", "ZERO_RESULTS", "REQUEST_DENIED"}}

\* client.get ends and the unit returns: it is the next in the order of return.
OrderRespond ==
  \E u \in Units : \E r \in OrderResponses :
    /\ Respond(u, r)
    /\ arrival' = Append(arrival, u)
    /\ UNCHANGED <<obs, call_vars, profiler_vars, tile_vars, grid_vars, parse_vars>>

NextOrder ==
  \/ StartBatchStep
  \/ AcquireStep
  \/ OrderRespond
  \/ GatherDoneStep

OrderSpec == Init /\ [][NextOrder]_vars

\* ------------------------------------------------- profiler configuration

\* config.AGE_BUCKETS
AGE_BUCKETS == {"0-12", "13-17", "18-24", "25-34", "35-50", "50+"}

\* config.INTEREST_CATEGORIES
INTEREST_CATEGORIES ==
  {"education", "shopping", "food", "health", "transit", "entertainment",
   "business", "lifestyle"}

\* config.TYPE_IMPORTANCE, in tenths.
TYPE_IMPORTANCE ==
  [hospital |-> 15, university |-> 13, school |-> 12, shopping_mall |-> 14,
   store |-> 8, restaurant |-> 7, transit_station |-> 10, park |-> 9, gym |-> 8,
   movie_theater |-> 10, bar |-> 7, night_club |-> 8, place_of_worship |-> 9,
   lodging |-> 10, corporate_office |-> 16, coworking_space |-> 14,
   it_park |-> 17, residential |-> 13]

\* Mutant: the age weights of a school name a bucket outside AGE_BUCKETS.
TYPE_TO_AGE_WEIGHTS_Typo ==
  [t \in DOMAIN TYPE_IMPORTANCE |->
     IF t = "school" THEN [b \in {"0-12", "13-18"} |-> IF b = "0-12" THEN 70 ELSE 30]
     ELSE [b \in {"25-34"} |-> 100]]

\* config.TYPE_TO_AGE_WEIGHTS, in hundredths.
TYPE_TO_AGE_WEIGHTS ==
  [school |-> [b \in {"0-12", "13-17"} |-> IF b = "0-12" THEN 70 ELSE 30],
   university |-> [b \in {"18-24", "25-34"} |-> IF b = "18-24" THEN 80 ELSE 20],
   shopping_mall |->
     [b \in {"25-34", "35-50", "18-24", "13-17"} |->
        CASE b = "25-34" -> 30 [] b = "35-50" -> 40 [] b = "18-24" -> 20 [] OTHER -> 10],
   store |->
     [b \in {"25-34", "35-50", "18-24", "50+"} |->
        CASE b = "25-34" -> 40 [] b = "35-50" -> 30 [] b = "18-24" -> 20 [] OTHER -> 10],
   restaurant |->
     [b \in {"25-34", "18-24", "35-50", "13-17", "50+"} |->
        CASE b = "25-34" -> 35 [] b = "18-24" -> 25 [] b = "35-50" -> 25
          [] b = "13-17" -> 10 [] OTHER -> 5],
   hospital |->
     [b \in AGE_BUCKETS |->
        CASE b = "35-50" -> 25 [] b = "50+" -> 30 [] b = "25-34" -> 20
          [] b = "0-12" -> 10 [] b = "13-17" -> 5 [] OTHER -> 10],
   transit_station |->
     [b \in {"18-24", "25-34", "35-50", "13-17"} |->
        CASE b = "18-24" -> 30 [] b = "25-34" -> 40 [] b = "35-50" -> 20 [] OTHER -> 10],
   park |->
     [b \in {"0-12", "25-34", "35-50", "50+", "13-17"} |->
        CASE b = "0-12" -> 20 [] b = "25-34" -> 25 [] b = "35-50" -> 30
          [] b = "50+" -> 15 [] OTHER -> 10],
   gym |->
     [b \in {"18-24", "25-34", "35-50", "13-17"} |->
        CASE b = "18-24" -> 35 [] b = "25-34" -> 40 [] b = "35-50" -> 20 [] OTHER -> 5],
   movie_theater |->
     [b \in {"13-17", "18-24", "25-34", "35-50", "0-12"} |->
        CASE b = "13-17" -> 15 [] b = "18-24" -> 35 [] b = "25-34" -> 30
          [] b = "35-50" -> 15 [] OTHER -> 5],
   bar |->
     [b \in {"18-24", "25-34", "35-50", "50+"} |->
        CASE b = "18-24" -> 30 [] b = "25-34" -> 45 [] b = "35-50" -> 20 [] OTHER -> 5],
   night_club |->
     [b \in {"18-24", "25-34", "35-50", "13-17"} |->
        CASE b = "18-24" -> 45 [] b = "25-34" -> 40 [] b = "35-50" -> 10 [] OTHER -> 5],
   place_of_worship |->
     [b \in AGE_BUCKETS |->
        CASE b = "35-50" -> 30 [] b = "50+" -> 35 [] b = "25-34" -> 15
          [] b = "0-12" -> 10 [] b = "13-17" -> 5 [] OTHER -> 5],
   lodging |->
     [b \in {"25-34", "35-50", "18-24", "50+"} |->
        CASE b = "25-34" -> 35 [] b = "35-50" -> 35 [] b = "18-24" -> 15 [] OTHER -> 15],
   corporate_office |->
     [b \in {"25-34", "35-50", "18-24", "50+"} |->
        CASE b = "25-34" -> 45 [] b = "35-50" -> 35 [] b = "18-24" -> 15 [] OTHER -> 5],
   coworking_space |->
     [b \in {"18-24", "25-34", "35-50", "13-17"} |->
        CASE b = "18-24" -> 25 [] b = "25-34" -> 50 [] b = "35-50" -> 20 [] OTHER -> 5],
   it_park |->
     [b \in {"25-34", "35-50", "18-24", "50+"} |->
        CASE b = "25-34" -> 50 [] b = "35-50" -> 30 [] b = "18-24" -> 15 [] OTHER -> 5],
   residential |->
     [b \in {"0-12", "13-17", "25-34", "35-50", "50+"} |->
        CASE b = "0-12" -> 15 [] b = "13-17" -> 10 [] b = "25-34" -> 30
          [] b = "35-50" -> 30 [] OTHER -> 15]]

\* config.TYPE_TO_INTEREST_WEIGHTS, in tenths.
TYPE_TO_INTEREST_WEIGHTS ==
  [school |-> [c \in {"education"} |-> 10],
   university |-> [c \in {"education", "food"} |-> IF c = "education" THEN 9 ELSE 1],
   shopping_mall |->
     [c \in {"shopping", "entertainment"} |-> IF c = "shopping" THEN 8 ELSE 2],
   store |-> [c \in {"shopping", "food"} |-> IF c = "shopping" THEN 9 ELSE 1],
   restaurant |-> [c \in {"food"} |-> 10],
   hospital |-> [c \in {"health"} |-> 10],
   transit_station |-> [c \in {"transit"} |-> 10],
   park |-> [c \in {"lifestyle", "health"} |-> IF c = "lifestyle" THEN 7 ELSE 3],
   gym |-> [c \in {"lifestyle", "health"} |-> 5],
   movie_theater |-> [c \in {"entertainment"} |-> 10],
   bar |-> [c \in {"entertainment", "food"} |-> IF c = "entertainment" THEN 7 ELSE 3],
   night_club |-> [c \in {"entertainment"} |-> 10],
   place_of_worship |-> [c \in {"lifestyle"} |-> 10],
   lodging |-> [c \in {"business", "lifestyle"} |-> 5],
   corporate_office |-> [c \in {"business"} |-> 10],
   coworking_space |->
     [c \in {"business", "lifestyle"} |-> IF c = "business" THEN 9 ELSE 1],
   it_park |-> [c \in {"business"} |-> 10],
   residential |-> [c \in {"lifestyle"} |-> 10]]

\* config.TYPE_TO_LANDUSE
TYPE_TO_LANDUSE ==
  [school |-> "education", university |-> "education",
   shopping_mall |-> "commercial", store |-> "commercial",
   restaurant |-> "commercial", hospital |-> "health",
   transit_station |-> "transit", park |-> "recreation", gym |-> "recreation",
   movie_theater |-> "entertainment", bar |-> "entertainment",
   night_club |-> "entertainment", place_of_worship |-> "residential",
   lodging |-> "hospitality", corporate_office |-> "office",
   coworking_space |-> "office", it_park |-> "office",
   residential |-> "residential"]

\* --------------------------------------------------------- compute_profile

\* config.SIGMA_M and config.MAX_INFLUENCE_M, in metres.
SIGMA_M == 200

MAX_INFLUENCE_M == 1000

\* Numbers of the model: a distance is a whole number of centimetres, a
\* weight a whole number of its unit (importance and popularity in tenths, a
\* decay in hundredths), a value rounded to two decimals a whole number of
\* hundredths.

\* The integer nearest to n / d, a tie going to the even one: Python's
\* round() on a value that is exactly representable.
RoundHalfEven(n, d) ==
  LET q == n \div d
      r == n % d
  IN IF 2 * r < d THEN q
     ELSE IF 2 * r > d THEN q + 1
     ELSE IF q % 2 = 0 THEN q ELSE q + 1

\* profiler._gaussian_decay(d) = exp(-d^2 / (2 sigma^2)) with sigma = SIGMA_M,
\* in hundredths, at the distances of the model (d in centimetres).
_gaussian_decay(d) ==
  CASE d = 0 -> 100
    [] d = 10004 -> 88
    [] d = 20000 -> 61
    [] d = 40000 -> 14
    [] d = 40016 -> 14
    [] d = 60000 -> 1

\* profiler._popularity_factor: 1.0 for None (written -1 here) or 0, else
\* 1 + ln(1 + n), in tenths, at the rating counts of the model.
_popularity_factor(user_ratings_total) ==
  CASE user_ratings_total = -1 -> 10
    [] user_ratings_total = 0 -> 10
    [] user_ratings_total = 50 -> 49

\* Mutant: the first tag is taken whether or not it is a configured type.
_primary_type_first(types) == IF types # <<>> THEN types[1] ELSE None

\* profiler._primary_type: the first tag that is a key of TYPE_IMPORTANCE.
_primary_type(types) ==
  LET known == {i \in DOMAIN types : types[i] \in DOMAIN TYPE_IMPORTANCE}
  IN IF known = {} THEN None
     ELSE types[CHOOSE i \in known : \A j \in known : i <= j]

\* "_primary_type(poi["types"]) or (poi["types"][0] if poi["types"] else "unknown")"
NearestType(types) ==
  IF _primary_type(types) # None THEN _primary_type(types)
  ELSE IF types # <<>> THEN types[1] ELSE "unknown"

\* nearby_pois.sort(key=lambda x: x[1]): ascending distance, pairs of equal
\* distance in their input order (list.sort is stable).
SortByDistance(pairs) ==
  LET rank(i) ==
        Cardinality({j \in DOMAIN pairs :
                       \/ pairs[j][2] < pairs[i][2]
                       \/ pairs[j][2] = pairs[i][2] /\ j < i}) + 1
  IN [k \in DOMAIN pairs |-> pairs[CHOOSE i \in DOMAIN pairs : rank(i) = k]]

RECURSIVE SumOver(_, _)
SumOver(f, S) ==
  IF S = {} THEN 0
  ELSE LET x == CHOOSE y \in S : TRUE IN f[x] + SumOver(f, S \ {x})

\* The elements of a set of positions, as values of f, in ascending position.
InOrder(f, S) ==
  [k \in 1..Cardinality(S) |->
     f[CHOOSE i \in S : Cardinality({j \in S : j < i}) = k - 1]]

\* The positions of the (sorted) input whose POI has a configured type: the
\* others are skipped by "if ptype" and "if not ptype: continue".
Counted(sorted) == {i \in DOMAIN sorted : _primary_type(sorted[i][1].types) # None}

PrimaryOf(sorted, i) == _primary_type(sorted[i][1].types)

\* config.TYPE_IMPORTANCE.get(ptype, 1.0), in tenths.
Importance(ptype) ==
  IF ptype \in DOMAIN TYPE_IMPORTANCE THEN TYPE_IMPORTANCE[ptype] ELSE 10

\* config.TYPE_TO_LANDUSE.get(ptype, "other")
Landuse(ptype) ==
  IF ptype \in DOMAIN TYPE_TO_LANDUSE THEN TYPE_TO_LANDUSE[ptype] ELSE "other"

\* base_weight = importance * decay * pop
base_weight(pair) ==
  Importance(_primary_type(pair[1].types)) * _gaussian_decay(pair[2])
    * _popularity_factor(pair[1].user_ratings_total)

\* Mutant: the list of the nearest POIs is cut one entry late.
nearest_list_long(sorted) ==
  [i \in 1..Min(NEAREST_MAX + 1, Len(sorted)) |->
     [place_id |-> sorted[i][1].place_id,
      name |-> sorted[i][1].name,
      type |-> NearestType(sorted[i][1].types),
      distance_m |-> RoundHalfEven(sorted[i][2], 10)]]

\* "for poi, d in nearby_pois[:10]: nearest_list.append(...)", distance_m =
\* round(d, 1) in tenths of a metre.
nearest_list(sorted) ==
  [i \in 1..Min(NEAREST_MAX, Len(sorted)) |->
     [place_id |-> sorted[i][1].place_id,
      name |-> sorted[i][1].name,
      type |-> NearestType(sorted[i][1].types),
      distance_m |-> RoundHalfEven(sorted[i][2], 10)]]

\* "for poi, _ in nearby_pois: if ptype: counts[ptype] += 1"
counts(sorted) ==
  [t \in {PrimaryOf(sorted, i) : i \in Counted(sorted)} |->
     Cardinality({i \in Counted(sorted) : PrimaryOf(sorted, i) = t})]

\* "scores[key] += base_weight * w" over the counted POIs, for the rows of
\* one weight table; a key exists once a counted POI's row names it.
Accumulate(sorted, table) ==
  LET row(i) == IF PrimaryOf(sorted, i) \in DOMAIN table
                THEN table[PrimaryOf(sorted, i)] ELSE EmptyMap
      keys == UNION {DOMAIN row(i) : i \in Counted(sorted)}
  IN [k \in keys |->
        SumOver([i \in Counted(sorted) |->
                   IF k \in DOMAIN row(i) THEN base_weight(sorted[i]) * row(i)[k] ELSE 0],
                Counted(sorted))]

\* compute_profile.normalize: round(v / total, 2), in hundredths.
normalize(scores) ==
  LET total == SumOver(scores, DOMAIN scores)
  IN IF total = 0 THEN [k \in DOMAIN scores |-> 0]
     ELSE [k \in DOMAIN scores |-> RoundHalfEven(100 * scores[k], total)]

\* Mutant: the normalized scores replace the zero-filled distribution.
UpdateReplace(base, m) == m

\* dict.update
Update(base, m) ==
  [k \in DOMAIN base \cup DOMAIN m |-> IF k \in DOMAIN m THEN m[k] ELSE base[k]]

\* landuse_scores: its keys in insertion order (the order in which the
\* counted POIs first name a land use) and the score of each key.
landuse_keys(sorted) ==
  LET lu(i) == Landuse(PrimaryOf(sorted, i))
      first == {i \in Counted(sorted) : \A j \in Counted(sorted) : j < i => lu(j) # lu(i)}
  IN InOrder([i \in first |-> lu(i)], first)

landuse_scores(sorted) ==
  [l \in {Landuse(PrimaryOf(sorted, i)) : i \in Counted(sorted)} |->
     SumOver([i \in Counted(sorted) |->
                IF Landuse(PrimaryOf(sorted, i)) = l
                THEN base_weight(sorted[i]) ELSE 0],
             Counted(sorted))]

\* sorted(landuse_scores, key=landuse_scores.get, reverse=True)[:3]: keys of
\* equal score keep their insertion order.
geo_attrs(sorted) ==
  LET keys == landuse_keys(sorted)
      score == landuse_scores(sorted)
      rank(i) ==
        Cardinality({j \in DOMAIN keys :
                       \/ score[keys[j]] > score[keys[i]]
                       \/ score[keys[j]] = score[keys[i]] /\ j < i}) + 1
  IN [k \in 1..Min(3, Len(keys)) |-> keys[CHOOSE i \in DOMAIN keys : rank(i) = k]]

\* footfall_total = sum of pop * decay (in thousandths);
\* round(min(1.0, footfall_total / 20.0), 2) if footfall_total > 0 else 0.0
footfall_proxy(sorted) ==
  LET footfall_total ==
        SumOver([i \in Counted(sorted) |->
                   _popularity_factor(sorted[i][1].user_ratings_total)
                     * _gaussian_decay(sorted[i][2])],
                Counted(sorted))
  IN IF footfall_total > 0
     THEN IF footfall_total >= 20 * 1000 THEN 100 ELSE RoundHalfEven(footfall_total, 200)
     ELSE 0

\* total_influence = sum of base_weight (in ten-thousandths);
\* round(min(1.0, total_influence / 15.0), 2) if total_influence > 0 else 0.0
confidence(sorted) ==
  LET total_influence ==
        SumOver([i \in Counted(sorted) |-> base_weight(sorted[i])], Counted(sorted))
  IN IF total_influence > 0
     THEN IF total_influence >= 15 * 10000 THEN 100
          ELSE RoundHalfEven(total_influence, 1500)
     ELSE 0

\* profiler.compute_profile
compute_profile(gp, pairs) ==
  LET sorted == SortByDistance(pairs)
  IN [grid_point_id |-> gp.id,
      lat |-> gp.lat,
      lon |-> gp.lon,
      poi_summary |-> [nearest |-> nearest_list(sorted), counts |-> counts(sorted)],
      geographic_attributes |-> geo_attrs(sorted),
      audience |->
        [age_profile |->
           Update([b \in AGE_BUCKETS |-> 0],
                  normalize(Accumulate(sorted, TYPE_TO_AGE_WEIGHTS))),
         interests |->
           Update([c \in INTEREST_CATEGORIES |-> 0],
                  normalize(Accumulate(sorted, TYPE_TO_INTEREST_WEIGHTS))),
         footfall_proxy |-> footfall_proxy(sorted),
         confidence |-> confidence(sorted)],
      model_metadata |-> [sigma_m |-> SIGMA_M, max_influence_m |-> MAX_INFLUENCE_M]]

\* ----------------------------------------- compute_profile called directly

\* Longest nearby_pois list of a direct call.
MaxPois == 3

\* POIs as compute_profile reads them, each with its distance in
\* centimetres: a school (the test's), a restaurant whose configured type is
\* its second tag, an IT park at the same distance, two POIs without a
\* configured type (one without any tag), a distant hospital.
\* user_ratings_total is -1 where the POI has none.
School ==
  [place_id |-> "test_school_1", name |-> "Test School", types |-> <<"school">>,
   user_ratings_total |-> 50]

Cafe ==
  [place_id |-> "cafe", name |-> "Cafe", types |-> <<"food", "restaurant">>,
   user_ratings_total |-> -1]

Tower ==
  [place_id |-> "tower", name |-> "Tower",
   types |-> <<"it_park", "point_of_interest">>, user_ratings_total |-> 0]

Shop ==
  [place_id |-> "shop", name |-> "Shop",
   types |-> <<"point_of_interest", "establishment">>, user_ratings_total |-> 50]

Bare == [place_id |-> "bare", name |-> "Bare", types |-> <<>>, user_ratings_total |-> -1]

Clinic ==
  [place_id |-> "clinic", name |-> "Clinic", types |-> <<"hospital">>,
   user_ratings_total |-> -1]

PoiPairs ==
  {<<Shop, 0>>, <<School, 10004>>, <<Cafe, 20000>>, <<Tower, 20000>>,
   <<Bare, 40016>>, <<Clinic, 60000>>}

\* The nearby_pois lists of the direct calls.
NearbyLists == UNION {[1..n -> PoiPairs] : n \in 0..MaxPois}

\* The grid points of the direct calls (coordinates in 1e-4 degrees).
CallGridPoints ==
  {[id |-> "g_0_0", lat |-> 284084, lon |-> 770417],
   [id |-> "g_1_0", lat |-> 284084, lon |-> 770437]}

\* The collector is not running.
CollectorIdle ==
  /\ phase = "idle"
  /\ batch_start = 0
  /\ tasks = EmptyMap
  /\ sem = COLLECTOR_CONCURRENCY
  /\ all_pois = EmptyMap
  /\ calls_done = 0
  /\ ret = -1
  /\ ObsInit

InitCall ==
  /\ CollectorIdle
  /\ pois_table = EmptyMap
  /\ ProfilerIdle
  /\ grid_point \in CallGridPoints
  /\ nearby_pois \in NearbyLists
  /\ profile = NoProfile
  /\ TilesIdle
  /\ GridIdle
  /\ ParseIdle
  /\ OrderIdle

\* compute_profile(grid_point, nearby_pois) runs: the caller's list is
\* sorted in place and the profile is returned.
ComputeProfile ==
  /\ profile.grid_point_id = None
  /\ nearby_pois' = SortByDistance(nearby_pois)
  /\ profile' = compute_profile(grid_point, nearby_pois)
  /\ UNCHANGED <<grid_point, collector_vars, pois_table, obs, profiler_vars, tile_vars, grid_vars, parse_vars, arrival>>

NextCall == ComputeProfile

CallSpec == InitCall /\ [][NextCall]_vars

\* ----------------------------------------------------- compute_all_profiles

\* Largest number of rows of the grid_points table.
NumPoints == 3

\* compute_all_profiles: BATCH_SIZE, profiles per write batch (500 in the
\* source), scaled.
PROFILE_BATCH_SIZE == 2

\* Calls of compute_all_profiles in one behaviour.
MaxRuns == 2

\* The rows of the grid_points table in the order of "ORDER BY j, i": one
\* row of the grid, coordinates in centimetres north and east of the origin.
GridRow ==
  [k \in 1..NumPoints |->
     [id |-> "g_" \o ToString(k - 1) \o "_0", lat |-> 0, lon |-> (k - 1) * 20000]]

\* grid.haversine between a grid point and a POI of the model: they lie on
\* one parallel, so the distance is the difference of the east coordinates.
haversine(lat1, lon1, lat2, lon2) ==
  CASE lat1 = lat2 -> IF lon1 <= lon2 THEN lon2 - lon1 ELSE lon1 - lon2

\* profiler._LAT_MARGIN and _LON_MARGIN: MAX_INFLUENCE_M plus 10 %, here in
\* centimetres on both axes.
_LAT_MARGIN == (MAX_INFLUENCE_M * 100 * 11) \div 10

_LON_MARGIN == (MAX_INFLUENCE_M * 100 * 11) \div 10

Abs(x) == IF x < 0 THEN -x ELSE x

\* compute_all_profiles: candidates, the (poi, d) pairs of the POIs that
\* pass the bounding-box filter and lie within MAX_INFLUENCE_M, in the order
\* of all_pois.
Candidates(gp, pois) ==
  LET near == {i \in DOMAIN pois :
                 /\ Abs(pois[i].lat - gp.lat) <= _LAT_MARGIN
                 /\ Abs(pois[i].lon - gp.lon) <= _LON_MARGIN
                 /\ haversine(gp.lat, gp.lon, pois[i].lat, pois[i].lon)
                      <= MAX_INFLUENCE_M * 100}
  IN InOrder([i \in near |->
                <<pois[i], haversine(gp.lat, gp.lon, pois[i].lat, pois[i].lon)>>],
             near)

\* Rows of the pois table as get_all_pois returns them.
SchoolRow ==
  [place_id |-> "test_school_1", name |-> "Test School", lat |-> 0, lon |-> 0,
   types |-> <<"school">>, user_ratings_total |-> 50]

TowerRow ==
  [place_id |-> "tower", name |-> "Tower", lat |-> 0, lon |-> 60000,
   types |-> <<"it_park", "point_of_interest">>, user_ratings_total |-> 0]

FarRow ==
  [place_id |-> "clinic", name |-> "Clinic", lat |-> 0, lon |-> -105000,
   types |-> <<"hospital">>, user_ratings_total |-> -1]

\* The contents the pois table may have when compute_all_profiles reads it:
\* nothing collected, or one of two collections.
PoiTables ==
  {EmptyMap,
   [p \in {"test_school_1", "tower"} |-> IF p = "tower" THEN TowerRow ELSE SchoolRow],
   [p \in {"clinic", "tower"} |-> IF p = "tower" THEN TowerRow ELSE FarRow]}

\* db.get_all_pois: "SELECT * FROM pois" fixes no order, so a call may read
\* the rows in any order.
RowOrders(table) ==
  {s \in [1..Cardinality(DOMAIN table) -> Range(table)] :
     \A i \in DOMAIN s : \A j \in DOMAIN s : i # j => s[i] # s[j]}

\* A profile left by an earlier deployment, at version 4.
StaleProfile ==
  [grid_point_id |-> "g_0_0", geo_attrs |-> <<"transit">>,
   audience |-> [age_profile |-> EmptyMap, interests |-> EmptyMap,
                 footfall_proxy |-> 100, confidence |-> 100],
   poi_summary |-> [nearest |-> <<>>, counts |-> [t \in {"park"} |-> 9]],
   version |-> 4]

InitialProfiles == {EmptyMap, [g \in {"g_0_0"} |-> StaleProfile]}

\* Mutant: the row is replaced and its version starts again at 1.
upsert_profile_reset(table, gp_id, geo, audience, poi_summary) ==
  [g \in DOMAIN table \cup {gp_id} |->
     IF g # gp_id THEN table[g]
     ELSE [grid_point_id |-> gp_id, geo_attrs |-> geo, audience |-> audience,
           poi_summary |-> poi_summary, version |-> 1]]

\* db.upsert_profile: INSERT OR REPLACE of the whole row, version =
\* COALESCE((SELECT version ... WHERE grid_point_id = ?), 0) + 1.
upsert_profile(table, gp_id, geo, audience, poi_summary) ==
  [g \in DOMAIN table \cup {gp_id} |->
     IF g # gp_id THEN table[g]
     ELSE [grid_point_id |-> gp_id, geo_attrs |-> geo, audience |-> audience,
           poi_summary |-> poi_summary,
           version |-> (IF gp_id \in DOMAIN table THEN table[gp_id].version ELSE 0) + 1]]

\* profiler._flush_batch, from the i-th tuple of the batch on.
RECURSIVE _flush_batch(_, _, _)
_flush_batch(table, b, i) ==
  IF i > Len(b) THEN table
  ELSE _flush_batch(upsert_profile(table, b[i][1], b[i][2], b[i][3], b[i][4]), b, i + 1)

InitProfiler ==
  /\ CollectorIdle
  /\ CallIdle
  /\ pois_table \in PoiTables
  /\ grid_table \in {SubSeq(GridRow, 1, n) : n \in 0..NumPoints}
  /\ profiles \in InitialProfiles
  /\ pstate = "idle"
  /\ poi_coords = <<>>
  /\ idx = 0
  /\ batch = <<>>
  /\ count = 0
  /\ returned = -1
  /\ runs = 0
  /\ before = profiles
  /\ TilesIdle
  /\ GridIdle
  /\ ParseIdle
  /\ OrderIdle

\* compute_all_profiles is called: with no grid points it returns 0, else
\* the loop starts with an empty batch.
BeginProfiling ==
  /\ pstate = "idle"
  /\ runs < MaxRuns
  /\ before' = profiles
  /\ poi_coords' \in RowOrders(pois_table)
  /\ idx' = 0
  /\ batch' = <<>>
  /\ count' = 0
  /\ IF grid_table = <<>>
     THEN pstate' = "idle" /\ returned' = 0 /\ runs' = runs + 1
     ELSE pstate' = "loop" /\ UNCHANGED <<returned, runs>>
  /\ UNCHANGED <<grid_table, profiles, pois_table, collector_vars, obs, call_vars,
                 tile_vars, grid_vars, parse_vars, arrival>>

\* One turn of "for idx, gp in enumerate(grid_points)": the profile of gp is
\* computed and queued, and a full batch is written.
ProfileNext ==
  /\ pstate = "loop"
  /\ idx < Len(grid_table)
  /\ LET gp == grid_table[idx + 1]
         p == compute_profile(gp, Candidates(gp, poi_coords))
         queued == Append(batch, <<gp.id, p.geographic_attributes, p.audience,
                                   p.poi_summary>>)
     IN IF Len(queued) >= PROFILE_BATCH_SIZE
        THEN profiles' = _flush_batch(profiles, queued, 1) /\ batch' = <<>>
        ELSE profiles' = profiles /\ batch' = queued
  /\ idx' = idx + 1
  /\ count' = count + 1
  /\ UNCHANGED <<grid_table, pstate, poi_coords, returned, runs, before, pois_table,
                 collector_vars, obs, call_vars, tile_vars, grid_vars, parse_vars, arrival>>

\* "if batch: _flush_batch(batch)"
FlushRemaining(table, b) == IF b # <<>> THEN _flush_batch(table, b, 1) ELSE table

\* The loop has ended: the remaining batch is written and count returned.
EndProfiling ==
  /\ pstate = "loop"
  /\ idx = Len(grid_table)
  /\ profiles' = FlushRemaining(profiles, batch)
  /\ batch' = <<>>
  /\ returned' = count
  /\ runs' = runs + 1
  /\ pstate' = "idle"
  /\ UNCHANGED <<grid_table, poi_coords, idx, count, before, pois_table,
                 collector_vars, obs, call_vars, tile_vars, grid_vars, parse_vars, arrival>>

\* Between two calls a collection replaces the content of the pois table.
Recollect ==
  /\ pstate = "idle"
  /\ \E t \in PoiTables : t # pois_table /\ pois_table' = t
  /\ UNCHANGED <<collector_vars, obs, call_vars, profiler_vars, tile_vars, grid_vars, parse_vars, arrival>>

NextProfiler == BeginProfiling \/ ProfileNext \/ EndProfiling \/ Recollect

ProfilerSpec == InitProfiler /\ [][NextProfiler]_vars

\* ------------------------------------------------------ compute_tile_centers

\* The bounding boxes tried have sides of 0 to MaxExtentSteps steps of 350 m.
MaxExtentSteps == 9

\* Lengths of this section are whole numbers of half metres, so that the
\* midpoints between two lattice lines are whole numbers too.
tile_radius == MAX_INFLUENCE_M * 2

\* spacing = tile_radius * math.sqrt(2) * 0.9, to the nearest half metre
\* (sqrt(2) * 0.9 = 1.27279...).
spacing == (tile_radius * 127279 + 50000) \div 100000

\* Mutant: no margin is added around the bounding box.
buffer_none(radius) == 0

\* buffer = tile_radius
buffer(radius) == radius

\* "x = x_min; while x <= x_max: ...; x += spacing": the values x takes.
RECURSIVE LatticeLine(_, _)
LatticeLine(x, x_max) ==
  IF x <= x_max THEN <<x>> \o LatticeLine(x + spacing, x_max) ELSE <<>>

\* compute_tile_centers for a bounding box of the given sides: the centers
\* in the order they are appended (y outer, x inner), in the planar frame
\* anchored at the south-west corner; offset_point then turns each (x, y)
\* into a latitude and longitude.
compute_tile_centers(width_m, height_m) ==
  LET xs == LatticeLine(-buffer(tile_radius), width_m + buffer(tile_radius))
      ys == LatticeLine(-buffer(tile_radius), height_m + buffer(tile_radius))
  IN [k \in 1..(Len(xs) * Len(ys)) |->
        <<xs[((k - 1) % Len(xs)) + 1], ys[((k - 1) \div Len(xs)) + 1]>>]

\* The sides of the bounding boxes tried, width_m and height_m as haversine
\* returns them.
Extents == {k * 700 : k \in 0..MaxExtentSteps}

InitTiles ==
  /\ CollectorIdle
  /\ pois_table = EmptyMap
  /\ CallIdle
  /\ ProfilerIdle
  /\ bbox \in [width_m : Extents, height_m : Extents]
  /\ tile_centers = <<>>
  /\ GridIdle
  /\ ParseIdle
  /\ OrderIdle

\* compute_tile_centers runs on the bounding box.
ComputeTiles ==
  /\ tile_centers = <<>>
  /\ tile_centers' = compute_tile_centers(bbox.width_m, bbox.height_m)
  /\ UNCHANGED <<bbox, collector_vars, pois_table, obs, call_vars, profiler_vars,
                 grid_vars, parse_vars, arrival>>

NextTiles == ComputeTiles

TilesSpec == InitTiles /\ [][NextTiles]_vars

\* ------------------------------------------------------------ generate_grid

\* Largest size_x and size_y of a generate_grid call.
MaxSize == 4

\* Latitudes and longitudes of this section are whole numbers of
\* microdegrees, offsets whole numbers of metres.

\* The origins tried: the tests' and the configured south-west corner
\* (config.BBOX_SOUTH, config.BBOX_WEST).
Origins ==
  {[lat |-> 28408400, lon |-> 77041700], [lat |-> 28350000, lon |-> 76820000]}

\* (1 / (R * cos(radians(lat)))) * (180 / pi), in microdegrees per kilometre,
\* at the latitudes of the origins.
LonPerKm(lat) ==
  CASE lat = 28408400 -> 10213
    [] lat = 28350000 -> 10207

\* grid.offset_point: new_lat = lat + (dy / R) * (180 / pi), 8.983
\* microdegrees per metre; new_lon = lon + (dx / (R * cos(lat))) * (180 / pi).
offset_point(lat, lon, dx, dy) ==
  <<lat + (dy * 8983) \div 1000, lon + (dx * LonPerKm(lat)) \div 1000>>

\* The body of the two loops for one (i, j).
GridPoint(a, i, j) ==
  LET ll == offset_point(a.origin_lat, a.origin_lon, i * a.spacing_m, j * a.spacing_m)
  IN [id |-> "g_" \o ToString(i) \o "_" \o ToString(j), i |-> i, j |-> j,
      lat |-> ll[1], lon |-> ll[2]]

\* "for i in range(size_x)" from i on, in row j.
RECURSIVE GridLine(_, _, _)
GridLine(a, i, j) ==
  IF i < a.size_x THEN <<GridPoint(a, i, j)>> \o GridLine(a, i + 1, j) ELSE <<>>

\* "for j in range(size_y)" from j on.
RECURSIVE GridLines(_, _)
GridLines(a, j) ==
  IF j < a.size_y THEN GridLine(a, 0, j) \o GridLines(a, j + 1) ELSE <<>>

\* Mutant: the loops are exchanged, i outer and j inner.
generate_grid_by_column(a) ==
  LET g == GridLines(a, 0)
  IN [k \in 1..Len(g) |->
        g[((k - 1) % a.size_y) * a.size_x + ((k - 1) \div a.size_y) + 1]]

\* grid.generate_grid
generate_grid(a) == GridLines(a, 0)

\* The arguments tried.
GridArgs ==
  {[origin_lat |-> o.lat, origin_lon |-> o.lon, size_x |-> sx, size_y |-> sy,
    spacing_m |-> sp] :
     o \in Origins, sx \in 0..MaxSize, sy \in 0..MaxSize, sp \in {200, 50}}

InitGrid ==
  /\ CollectorIdle
  /\ pois_table = EmptyMap
  /\ CallIdle
  /\ ProfilerIdle
  /\ TilesIdle
  /\ grid_args \in GridArgs
  /\ points = <<>>
  /\ prev_points = <<>>
  /\ grid_calls = 0
  /\ ParseIdle
  /\ OrderIdle

\* generate_grid is called with grid_args, up to twice.
GenerateGrid ==
  /\ grid_calls < 2
  /\ points' = generate_grid(grid_args)
  /\ prev_points' = points
  /\ grid_calls' = grid_calls + 1
  /\ UNCHANGED <<grid_args, collector_vars, pois_table, obs, call_vars, profiler_vars,
                 tile_vars, parse_vars, arrival>>

NextGrid == GenerateGrid

GridSpec == InitGrid /\ [][NextGrid]_vars

\* ------------------------------------- parsing the results of one response

\* Longest raw tag list of a result.
MaxTags == 2

\* The tags a raw result may carry.
RawTags == {"residential", "it_park", "store"}

\* result.get("types", []): the raw tag lists, repetitions included.
TagLists == UNION {[1..n -> RawTags] : n \in 0..MaxTags}

\* The keyword argument of the call: None and "" (a type search), keywords
\* of KEYWORD_TO_TYPE, and keywords that are no key of it (the lookup is
\* case-sensitive).
Keywords == {None, "", "housing society", "IT park", "it park", "metro station"}

\* The k-th result of a response, with the given tags.
RawResult(tags, k) ==
  [place_id |-> "p" \o ToString(k), name |-> "n1", types |-> tags, rating |-> 1]

\* data.get("results", []) of an OK response: one or two results.
RawResultLists ==
  {[k \in 1..n |-> RawResult(t[k], k)] : n \in 1..2, t \in [1..2 -> TagLists]}

\* _fetch_one_tile: inject_type = KEYWORD_TO_TYPE.get(keyword) if keyword else None
InjectTypeFor(kw) ==
  IF kw # None /\ kw # "" THEN KEYWORD_TO_TYPE(kw) ELSE None

InitParse ==
  /\ CollectorIdle
  /\ pois_table = EmptyMap
  /\ CallIdle
  /\ ProfilerIdle
  /\ TilesIdle
  /\ GridIdle
  /\ OrderIdle
  /\ keyword \in Keywords
  /\ raw_results \in RawResultLists
  /\ parsed = <<>>

\* _fetch_one_tile, status "OK":
\* return [_parse_place(p, inject_type) for p in data.get("results", [])]
ParseResponse ==
  /\ parsed = <<>>
  /\ parsed' = ParseResults(raw_results, InjectTypeFor(keyword))
  /\ UNCHANGED <<keyword, raw_results, collector_vars, pois_table, obs, call_vars,
                 profiler_vars, tile_vars, grid_vars, arrival>>

NextParse == ParseResponse

ParseSpec == InitParse /\ [][NextParse]_vars

\* ----------------------------------------------------------------- claims

\* C1: in every state of a collection run at most COLLECTOR_CONCURRENCY
\* units are inside the lookup section (issuing a lookup or sleeping in it);
\* the other units wait.
AdmissionBound == Cardinality(Holders) <= COLLECTOR_CONCURRENCY

AdmissionBoundWitness ==
  /\ Cardinality(Holders) = COLLECTOR_CONCURRENCY
  /\ InFlight # {}
  /\ \E u \in DOMAIN tasks : tasks[u].state = "pending"

\* C2: a unit of a later batch exists only when every unit of every earlier
\* batch has returned (succeeded, denied or exhausted).
BatchBarrier ==
  \A u \in DOMAIN tasks : \A v \in Units :
    BatchOf(v) < BatchOf(u) => v \in DOMAIN tasks /\ tasks[v].state \in Terminal

BatchBarrierWitness ==
  \E u \in DOMAIN tasks : \E v \in DOMAIN tasks : \E w \in DOMAIN tasks :
    /\ BatchOf(v) < BatchOf(u) /\ BatchOf(w) < BatchOf(u)
    /\ tasks[u].state = "inflight"
    /\ tasks[v].state = "exhausted"
    /\ tasks[w].state = "succeeded"

\* C3: once a unit of batch N+1 exists, every record with a non-empty
\* place_id that a successful unit of a batch <= N returned has its place_id
\* in the pois table, holding the row of the accumulated set.
FlushedBeforeNextBatch ==
  \A u \in DOMAIN tasks : \A v \in DOMAIN tasks :
    BatchOf(v) < BatchOf(u) /\ tasks[v].state = "succeeded" =>
      \A i \in DOMAIN tasks[v].result :
        LET id == tasks[v].result[i].place_id
        IN id # "" =>
             /\ id \in DOMAIN pois_table
             /\ id \in DOMAIN all_pois
             /\ pois_table[id] = all_pois[id]

FlushedBeforeNextBatchWitness ==
  \E u \in DOMAIN tasks : \E v \in DOMAIN tasks :
    /\ BatchOf(v) < BatchOf(u)
    /\ tasks[u].state = "pending"
    /\ tasks[v].state = "succeeded"
    /\ \E i \in DOMAIN tasks[v].result : tasks[v].result[i].place_id = "p2"
    /\ "p2" \in DOMAIN pois_table

\* C4 as stated: one unit issues at most COLLECTOR_RETRY_MAX lookups, the
\* first attempt included.
LookupsWithinRetryMax == \A u \in Units : lookups[u] <= COLLECTOR_RETRY_MAX

\* C4, amended: one unit issues at most COLLECTOR_RETRY_MAX + 1 lookups, the
\* first attempt and at most COLLECTOR_RETRY_MAX retries, rate-limited
\* responses and timeouts counted together.
LookupsWithinRetryMaxPlusOne ==
  \A u \in Units :
    /\ lookups[u] <= COLLECTOR_RETRY_MAX + 1
    /\ ratelimits[u] + timeouts[u] <= COLLECTOR_RETRY_MAX + 1

LookupsWitness ==
  \E u \in Units :
    /\ lookups[u] = COLLECTOR_RETRY_MAX + 1
    /\ timeouts[u] >= 1
    /\ ratelimits[u] >= 1
    /\ tasks[u].state = "exhausted"

\* C5: a unit that was rate-limited k times in a row (no timeout) and then
\* answered OK returns the parsed results of that response, for every k up to
\* COLLECTOR_RETRY_MAX; the wait after the i-th rate-limited response is 2^i
\* seconds and the waits sum to 2^k - 1 seconds.
RateLimitedThenOK ==
  \A u \in DOMAIN tasks :
    timeouts[u] = 0 =>
      /\ tasks[u].state = "sleep_rl" => tasks[u].wait = 2 ^ (ratelimits[u] - 1)
      /\ tasks[u].state = "exhausted" => ratelimits[u] > COLLECTOR_RETRY_MAX
      /\ answer[u].kind = "OK" =>
           /\ ratelimits[u] <= COLLECTOR_RETRY_MAX
           /\ tasks[u].state = "succeeded"
           /\ tasks[u].result = ParseResults(answer[u].results, InjectTypeOf(u))
           /\ waited[u] = 2 ^ ratelimits[u] - 1

RateLimitedThenOKWitness ==
  \E u \in DOMAIN tasks :
    /\ timeouts[u] = 0
    /\ ratelimits[u] = COLLECTOR_RETRY_MAX
    /\ answer[u].kind = "OK"
    /\ tasks[u].result # <<>>
    /\ waited[u] = 7

\* The responses that abandon the unit: REQUEST_DENIED, another status, a
\* non-200 HTTP code.
DenialKinds == {"REQUEST_DENIED", "INVALID_REQUEST", "HTTP_ERROR"}

\* C6: a step that leaves a denial as the unit's last response leaves the
\* unit returned with the empty list and outside the lookup section, and
\* neither issues a lookup nor sleeps, whatever retries came before.
DenialEndsUnit ==
  [][\A u \in DOMAIN tasks :
       answer'[u].kind \in DenialKinds =>
         /\ tasks'[u].state = "denied"
         /\ tasks'[u].result = <<>>
         /\ lookups'[u] = lookups[u]
         /\ waited'[u] = waited[u]
         /\ u \notin Sleepers']_vars

DenialEndsUnitWitness ==
  \E u \in DOMAIN tasks :
    /\ answer[u].kind = "REQUEST_DENIED"
    /\ tasks[u].state = "denied"
    /\ ratelimits[u] >= 1
    /\ timeouts[u] >= 1
    /\ lookups[u] = COLLECTOR_RETRY_MAX + 1

\* C7 as stated: no failure of a unit's lookup leaves collect_pois as an
\* exception.
RunNeverAborts == phase # "raised"

\* The units of the batches gathered so far.
Gathered == {u \in DOMAIN tasks : TileOf(u) <= batch_start}

GatheredRecords == UNION {Range(tasks[u].result) : u \in Gathered}

\* C8: the merged set has exactly the non-empty place_ids the gathered units
\* returned, the record kept for a place_id is one of the records returned
\* for it, whole, and the pois table holds that record.
DedupMerge ==
  /\ DOMAIN all_pois = {r.place_id : r \in GatheredRecords} \ {""}
  /\ \A p \in DOMAIN all_pois :
       /\ all_pois[p] \in GatheredRecords
       /\ all_pois[p].place_id = p
       /\ p \in DOMAIN pois_table
       /\ pois_table[p] = all_pois[p]

DedupMergeWitness ==
  \E u \in Gathered : \E v \in Gathered :
    \E i \in DOMAIN tasks[u].result : \E j \in DOMAIN tasks[v].result :
      /\ u < v
      /\ tasks[u].result[i].place_id = "p1"
      /\ tasks[v].result[j].place_id = "p1"
      /\ tasks[u].result[i].name # tasks[v].result[j].name
      /\ all_pois["p1"] = tasks[v].result[j]

\* The moves of one unit: it waits for a slot, looks up, and then returns,
\* or sleeps and either waits for a slot again or gives up.
UnitEdges ==
  {<<"pending", "inflight">>, <<"inflight", "succeeded">>, <<"inflight", "denied">>,
   <<"inflight", "raised">>, <<"inflight", "sleep_rl">>, <<"inflight", "sleep_to">>,
   <<"sleep_rl", "pending">>, <<"sleep_to", "pending">>,
   <<"sleep_rl", "exhausted">>, <<"sleep_to", "exhausted">>}

\* C9: every unit whose lookups answer or time out (none raises another
\* exception) ends succeeded, denied or exhausted; it moves along the unit
\* state machine only, and once it has ended it never changes again, so it
\* issues no further lookup.
UnitStateMachine ==
  /\ \A u \in DirectUnits :
       <>(tasks[u].state \in Terminal \/ tasks[u].state = "raised")
  /\ [][\A u \in DOMAIN tasks :
          /\ tasks'[u].state # tasks[u].state =>
               <<tasks[u].state, tasks'[u].state>> \in UnitEdges
          /\ tasks[u].state \in Terminal => tasks'[u] = tasks[u]]_vars

UnitStateMachineWitness ==
  /\ \A u \in DirectUnits : tasks[u].state \in Terminal
  /\ \E u \in DirectUnits : tasks[u].state = "exhausted"
  /\ \E u \in DirectUnits : tasks[u].state = "succeeded" /\ tasks[u].result # <<>>
  /\ sem = COLLECTOR_CONCURRENCY

\* C10: the free slots are the capacity less the units looking up or
\* sleeping, so a sleeping unit holds its slot until the sleep ends; while
\* COLLECTOR_CONCURRENCY units sleep no unit can start a lookup.
BackoffHoldsSlot ==
  /\ sem = COLLECTOR_CONCURRENCY - Cardinality(InFlight) - Cardinality(Sleepers)
  /\ Cardinality(Sleepers) = COLLECTOR_CONCURRENCY =>
       \A u \in Units : ~ENABLED Acquire(u)

BackoffHoldsSlotWitness ==
  /\ Cardinality(Sleepers) = COLLECTOR_CONCURRENCY
  /\ \E u \in Sleepers : tasks[u].state = "sleep_rl" /\ tasks[u].wait = 4
  /\ \E u \in DOMAIN tasks : tasks[u].state = "pending"

\* C11: a timeout counts against the same retry counter as a rate-limited
\* response and is followed by a wait of exactly 1 second; when that wait
\* ends the unit asks for a slot again if the counter is within
\* COLLECTOR_RETRY_MAX and gives up otherwise; a unit answered OK after t
\* timeouts and r rate-limited responses, t + r <= COLLECTOR_RETRY_MAX,
\* returns the parsed results of that response.
TimeoutSharesBudget ==
  /\ [](\A u \in DOMAIN tasks :
         LET seen == timeouts[u] + ratelimits[u]
         IN /\ tasks[u].state = "sleep_to" =>
                 tasks[u].wait = 1 /\ tasks[u].retries = seen
            /\ tasks[u].state = "sleep_rl" => tasks[u].retries = seen - 1
            /\ tasks[u].state \in {"pending", "inflight"} =>
                 tasks[u].retries = seen /\ seen <= COLLECTOR_RETRY_MAX
            /\ tasks[u].state = "exhausted" => seen = COLLECTOR_RETRY_MAX + 1
            /\ ratelimits[u] = 0 /\ tasks[u].state # "sleep_to" =>
                 waited[u] = timeouts[u]
            /\ answer[u].kind = "OK" =>
                 /\ seen <= COLLECTOR_RETRY_MAX
                 /\ tasks[u].state = "succeeded"
                 /\ tasks[u].result = ParseResults(answer[u].results, InjectTypeOf(u)))
  /\ [][\A u \in DOMAIN tasks :
          tasks[u].state = "sleep_to" /\ tasks'[u].state # "sleep_to" =>
            /\ waited'[u] = waited[u] + 1
            /\ tasks'[u].state =
                 IF timeouts[u] + ratelimits[u] <= COLLECTOR_RETRY_MAX
                 THEN "pending" ELSE "exhausted"]_vars

TimeoutSharesBudgetWitness ==
  \E u \in DOMAIN tasks :
    /\ timeouts[u] = 2
    /\ ratelimits[u] = 1
    /\ answer[u].kind = "OK"
    /\ tasks[u].state = "succeeded"
    /\ tasks[u].result # <<>>

\* Units that have not returned: waiting for a slot, looking up or sleeping.
Active == {u \in DOMAIN tasks : tasks[u].state \in Holding \cup {"pending"}}

\* C12: the merged mapping and the pois table change only in the step after
\* the batch's gather: in a step that changes the mapping, the table or the
\* count of completed lookups no unit is waiting for a slot, looking up or
\* sleeping, before or after it; a step of a unit changes neither the
\* mapping nor the table.
MergeOnlyAtBarrier ==
  [][/\ (all_pois' # all_pois \/ pois_table' # pois_table \/ calls_done' # calls_done) =>
          /\ phase = "gather"
          /\ phase' \in {"idle", "done"}
          /\ Active = {}
          /\ Active' = {}
          /\ tasks' = tasks
     /\ tasks' # tasks => all_pois' = all_pois /\ pois_table' = pois_table]_vars

MergeOnlyAtBarrierWitness ==
  /\ phase = "idle"
  /\ batch_start >= 1
  /\ calls_done = Cardinality(DOMAIN tasks)
  /\ "p2" \in DOMAIN all_pois
  /\ "p2" \in DOMAIN pois_table
  /\ \E u \in DOMAIN tasks : tasks[u].state = "exhausted"

\* The tiles whose units have been built: those before batch_start, and
\* while a batch runs those of tile_centers[batch_start:batch_end].
TilesStarted ==
  IF phase \in {"gather", "raised"} THEN Min(batch_start + BATCH_SIZE, total_tiles)
  ELSE Min(batch_start, total_tiles)

\* Every (tile, search) pair of the tiles started so far is exactly one work
\* unit, no tile skipped, the last batch cut at total_tiles, and calls_done
\* counts the units of the gathered batches within total_calls.
PlanFollowed ==
  /\ DOMAIN tasks = {u \in Units : TileOf(u) <= TilesStarted}
  /\ Cardinality(DOMAIN tasks) = TilesStarted * (Len(POI_TYPES) + Len(POI_KEYWORDS))
  /\ phase = "idle" => BatchUnits(batch_start) \cap DOMAIN tasks = {}
  /\ calls_done = Cardinality(Gathered)
  /\ calls_done <= total_calls

\* PlanFollowed holds in every state, and a run that returns has run every
\* unit of the plan.
PlanFollowedByReturningRun ==
  /\ PlanFollowed
  /\ phase = "done" => calls_done = total_calls /\ DOMAIN tasks = Units

\* C13 as stated: every (tile, search) pair becomes exactly one work unit,
\* the batches partition the tiles, calls_done stays within total_calls, and
\* when the run has ended, by a return or by an exception, every unit of the
\* plan has run and calls_done equals total_calls.
RunCompletesPlan ==
  /\ PlanFollowed
  /\ phase \in {"done", "raised"} => calls_done = total_calls /\ DOMAIN tasks = Units

\* The row compute_all_profiles writes for grid point gp, but for its
\* version: the profile computed from the POIs the call has read.
ComputedRow(gp) ==
  LET p == compute_profile(gp, Candidates(gp, poi_coords))
  IN [grid_point_id |-> gp.id, geo_attrs |-> p.geographic_attributes,
      audience |-> p.audience, poi_summary |-> p.poi_summary, version |-> 0]

\* C14: when a call of compute_all_profiles has returned, the returned
\* count is the number of grid points, every grid point has its row in the
\* profiles table (also the points of a last batch smaller than the batch
\* size), the row's version is one more than before the call (1 when there
\* was none), so k after k calls for a row that did not exist at first, its
\* content is the profile this call computed, whole; and no step ever
\* removes a row or lowers a version.
ProfilesVersioned ==
  /\ [](pstate = "idle" /\ runs >= 1 =>
          /\ returned = Len(grid_table)
          /\ \A k \in DOMAIN grid_table :
               LET gp == grid_table[k]
               IN /\ gp.id \in DOMAIN profiles
                  /\ profiles[gp.id].version =
                       (IF gp.id \in DOMAIN before THEN before[gp.id].version ELSE 0) + 1
                  /\ profiles[gp.id].version \in {runs, StaleProfile.version + runs}
                  /\ gp.id # StaleProfile.grid_point_id => profiles[gp.id].version = runs
                  /\ [profiles[gp.id] EXCEPT !.version = 0] = ComputedRow(gp))
  /\ [][\A g \in DOMAIN profiles :
          g \in DOMAIN profiles' /\ profiles'[g].version >= profiles[g].version]_vars

ProfilesVersionedWitness ==
  /\ pstate = "idle"
  /\ runs = 2
  /\ Len(grid_table) > PROFILE_BATCH_SIZE
  /\ Len(grid_table) % PROFILE_BATCH_SIZE # 0
  /\ profiles["g_0_0"].version = StaleProfile.version + 2
  /\ \A k \in DOMAIN grid_table :
       /\ k > 1 => profiles[grid_table[k].id].version = 2
       /\ profiles[grid_table[k].id].poi_summary # before[grid_table[k].id].poi_summary

\* compute_profile has returned.
Profiled == profile.grid_point_id # None

\* A distribution in hundredths either is all zero or sums to 100 within
\* the rounding of its values, half a hundredth each.
SumsToOne(dist) ==
  LET total == SumOver(dist, DOMAIN dist)
  IN \/ \A k \in DOMAIN dist : dist[k] = 0
     \/ 2 * Abs(total - 100) <= Cardinality(DOMAIN dist)

\* C15: for every grid point and nearby_pois list the keys of the returned
\* age_profile are exactly AGE_BUCKETS and those of interests exactly
\* INTEREST_CATEGORIES, and each distribution sums to 1.0 within rounding or
\* is all 0.0.
ClosedDistributions ==
  Profiled =>
    /\ DOMAIN profile.audience.age_profile = AGE_BUCKETS
    /\ DOMAIN profile.audience.interests = INTEREST_CATEGORIES
    /\ SumsToOne(profile.audience.age_profile)
    /\ SumsToOne(profile.audience.interests)
    /\ \A b \in AGE_BUCKETS : profile.audience.age_profile[b] \in 0..100
    /\ \A c \in INTEREST_CATEGORIES : profile.audience.interests[c] \in 0..100

ClosedDistributionsWitness ==
  /\ Profiled
  /\ Cardinality(Counted(nearby_pois)) >= 2
  /\ SumOver(profile.audience.age_profile, AGE_BUCKETS) \notin {0, 100}
  /\ SumOver(profile.audience.interests, INTEREST_CATEGORIES) = 100
  /\ \E b \in AGE_BUCKETS : profile.audience.age_profile[b] = 0

\* The input POIs that have a tag in the category-importance table, and
\* the first such tag of a POI.
HasKnownTag(types) == \E i \in DOMAIN types : types[i] \in DOMAIN TYPE_IMPORTANCE

FirstKnownTag(types) ==
  types[CHOOSE i \in DOMAIN types :
          /\ types[i] \in DOMAIN TYPE_IMPORTANCE
          /\ \A j \in 1..(i - 1) : types[j] \notin DOMAIN TYPE_IMPORTANCE]

\* C16: a call of compute_profile on a list of n (POI, distance) pairs
\* returns a nearest list of min(NEAREST_MAX, n) entries, which are input
\* pairs of the smallest distances in ascending order of distance, and
\* counts that count every input POI with a tag in the category-importance
\* table under its first such tag, also beyond the nearest list; a POI with
\* no such tag is in no count, so the counts sum to the number of input POIs
\* with a known category.
NearestAndCounts ==
  [][profile.grid_point_id = None /\ profile'.grid_point_id # None =>
       LET near == profile'.poi_summary.nearest
           cnt == profile'.poi_summary.counts
           In == DOMAIN nearby_pois
           known == {j \in In : HasKnownTag(nearby_pois[j][1].types)}
       IN /\ Len(near) = Min(NEAREST_MAX, Len(nearby_pois))
          /\ \A i \in DOMAIN near : \A k \in DOMAIN near :
               i < k => near[i].distance_m <= near[k].distance_m
          /\ \E sel \in [DOMAIN near -> In] :
               /\ \A i \in DOMAIN near : \A k \in DOMAIN near : i # k => sel[i] # sel[k]
               /\ \A i \in DOMAIN near :
                    /\ near[i].place_id = nearby_pois[sel[i]][1].place_id
                    /\ near[i].name = nearby_pois[sel[i]][1].name
                    /\ near[i].distance_m = RoundHalfEven(nearby_pois[sel[i]][2], 10)
               /\ \A j \in In \ Range(sel) : \A i \in DOMAIN near :
                    nearby_pois[sel[i]][2] <= nearby_pois[j][2]
          /\ DOMAIN cnt = {FirstKnownTag(nearby_pois[j][1].types) : j \in known}
          /\ \A t \in DOMAIN cnt :
               cnt[t] = Cardinality({j \in known :
                                       FirstKnownTag(nearby_pois[j][1].types) = t})
          /\ SumOver(cnt, DOMAIN cnt) = Cardinality(known)]_vars

NearestAndCountsWitness ==
  /\ Profiled
  /\ Len(nearby_pois) > NEAREST_MAX
  /\ Len(profile.poi_summary.nearest) = NEAREST_MAX
  /\ \E i \in DOMAIN nearby_pois :
       i > NEAREST_MAX /\ HasKnownTag(nearby_pois[i][1].types)
  /\ \E i \in DOMAIN nearby_pois : ~HasKnownTag(nearby_pois[i][1].types)
  /\ \E t \in DOMAIN profile.poi_summary.counts : profile.poi_summary.counts[t] = 2

\* C17: compute_profile with an empty POI list can run (it raises no
\* error) and returns confidence 0, footfall_proxy 0, every bucket of
\* age_profile and of interests present with value 0.0, no geographic
\* attribute, an empty nearest list and empty counts, for any grid point,
\* whose id and coordinates it returns.
EmptyInputProfile ==
  /\ ~Profiled /\ nearby_pois = <<>> => ENABLED ComputeProfile
  /\ Profiled /\ nearby_pois = <<>> =>
       /\ profile.grid_point_id = grid_point.id
       /\ profile.lat = grid_point.lat /\ profile.lon = grid_point.lon
       /\ profile.audience.confidence = 0
       /\ profile.audience.footfall_proxy = 0
       /\ profile.audience.age_profile = [b \in AGE_BUCKETS |-> 0]
       /\ profile.audience.interests = [c \in INTEREST_CATEGORIES |-> 0]
       /\ profile.geographic_attributes = <<>>
       /\ profile.poi_summary.nearest = <<>>
       /\ DOMAIN profile.poi_summary.counts = {}

EmptyInputProfileWitness ==
  /\ Profiled
  /\ nearby_pois = <<>>
  /\ profile.grid_point_id = "g_0_0"
  /\ profile.audience.confidence = 0

\* The coordinates along one axis at which a point of the bounding box can
\* be farthest from the lattice lines cs: the two ends of the side, the
\* midpoints between lattice lines, and a sample every 350 m.
Critical(side, cs) ==
  {c \in {0, side} \cup {(a + b) \div 2 : a \in cs, b \in cs} \cup Extents :
     0 <= c /\ c <= side}

\* C18: in the planar frame anchored at the south-west corner, the centers
\* compute_tile_centers returns are the square lattice that starts at
\* (-tile_radius, -tile_radius), advances by spacing along x within a row
\* and along y between rows, and ends with the last lines within
\* width_m + tile_radius and height_m + tile_radius; every point of the
\* bounding box, 0 <= x <= width_m and 0 <= y <= height_m, has a center
\* within tile_radius.
TilesCoverBox ==
  tile_centers # <<>> =>
    LET xs == {c[1] : c \in Range(tile_centers)}
        ys == {c[2] : c \in Range(tile_centers)}
        nx == Cardinality(xs)
        ny == Cardinality(ys)
    IN /\ tile_centers[1] = <<-tile_radius, -tile_radius>>
       /\ xs = {k * spacing - tile_radius : k \in 0..(nx - 1)}
       /\ ys = {k * spacing - tile_radius : k \in 0..(ny - 1)}
       /\ (nx - 1) * spacing - tile_radius <= bbox.width_m + tile_radius
       /\ nx * spacing - tile_radius > bbox.width_m + tile_radius
       /\ (ny - 1) * spacing - tile_radius <= bbox.height_m + tile_radius
       /\ ny * spacing - tile_radius > bbox.height_m + tile_radius
       /\ Len(tile_centers) = nx * ny
       /\ \A k \in DOMAIN tile_centers :
            tile_centers[k] =
              <<((k - 1) % nx) * spacing - tile_radius,
                ((k - 1) \div nx) * spacing - tile_radius>>
       /\ \A x \in Critical(bbox.width_m, xs) : \A y \in Critical(bbox.height_m, ys) :
            \E c \in Range(tile_centers) :
              (c[1] - x) * (c[1] - x) + (c[2] - y) * (c[2] - y)
                <= tile_radius * tile_radius

\* A box whose east side lies beyond the last lattice line, covered.
TilesCoverBoxWitness ==
  /\ tile_centers # <<>>
  /\ bbox.height_m > 0
  /\ \A c \in Range(tile_centers) : c[1] < bbox.width_m
  /\ Len(tile_centers) >= 9

\* C19: generate_grid returns exactly size_x * size_y points in row-major
\* order (j outer, i inner): the point at 0-based position j * size_x + i is
\* the one of the pair (i, j) and has the id g_{i}_{j}, so every pair
\* 0 <= i < size_x, 0 <= j < size_y has one point; the ids are pairwise
\* distinct; g_0_0 has exactly the origin coordinates; and a second call with
\* the same arguments returns the same sequence as the first.
GridAsSpecified ==
  grid_calls > 0 =>
    /\ Len(points) = grid_args.size_x * grid_args.size_y
    /\ \A j \in 0..(grid_args.size_y - 1) : \A i \in 0..(grid_args.size_x - 1) :
         LET p == points[j * grid_args.size_x + i + 1]
         IN /\ p.i = i
            /\ p.j = j
            /\ p.id = "g_" \o ToString(i) \o "_" \o ToString(j)
            /\ Cardinality({k \in 1..Len(points) : points[k].i = i /\ points[k].j = j}) = 1
    /\ \A k, l \in 1..Len(points) : points[k].id = points[l].id => k = l
    /\ \A k \in 1..Len(points) :
         points[k].id = "g_0_0" =>
           /\ points[k].lat = grid_args.origin_lat
           /\ points[k].lon = grid_args.origin_lon
    /\ grid_calls = 2 => points = prev_points

\* The tests' 3 by 4 grid was generated twice; the first point of the second
\* row is g_0_1 and lies north of the origin on its meridian.
GridAsSpecifiedWitness ==
  /\ grid_calls = 2
  /\ grid_args.size_x = 3
  /\ grid_args.size_y = 4
  /\ Len(points) = 12
  /\ points[4].id = "g_0_1"
  /\ points[4].lat > grid_args.origin_lat
  /\ points[4].lon = grid_args.origin_lon
  /\ points[1].id = "g_0_0"

\* The input list with the pair q added after its first pos pairs.
WithPoi(pairs, pos, q) ==
  SubSeq(pairs, 1, pos) \o <<q>> \o SubSeq(pairs, pos + 1, Len(pairs))

\* The entry of the nearest list a pair of fallback category makes.
FallbackEntry(q) ==
  [place_id |-> q[1].place_id,
   name |-> q[1].name,
   type |-> IF q[1].types # <<>> THEN q[1].types[1] ELSE "unknown",
   distance_m |-> RoundHalfEven(q[2], 10)]

\* C20: a POI none of whose tags is in the category-importance table
\* contributes zero weight: the profile of the input with such a POI added,
\* at any place of the list, has the same age_profile, interests,
\* footfall_proxy and confidence, the same geographic attributes and the
\* same counts as the profile of the input; the POI's fallback category
\* (its first raw tag, else "unknown") is no key of the counts and shows
\* only in the nearest list, whose other entries are entries of the nearest
\* list of the input.
UnknownPoiWeightless ==
  profile.grid_point_id # None =>
    \A q \in PoiPairs : \A pos \in 0..Len(nearby_pois) :
      ~HasKnownTag(q[1].types) =>
        LET added == compute_profile(grid_point, WithPoi(nearby_pois, pos, q))
            near == added.poi_summary.nearest
        IN /\ added.audience = profile.audience
           /\ added.geographic_attributes = profile.geographic_attributes
           /\ added.poi_summary.counts = profile.poi_summary.counts
           /\ FallbackEntry(q).type \notin DOMAIN added.poi_summary.counts
           /\ \A k \in DOMAIN near :
                \/ near[k] = FallbackEntry(q)
                \/ \E l \in DOMAIN profile.poi_summary.nearest :
                     near[k] = profile.poi_summary.nearest[l]

\* The profile of a school and an office tower was computed; with the shop
\* of no configured tag added, the nearest list starts with the shop under
\* its first raw tag and no longer holds the tower, and with the POI of no
\* tags added after a single school, the nearest list ends with "unknown".
UnknownPoiWeightlessWitness ==
  /\ profile.grid_point_id # None
  /\ profile.audience.confidence > 0
  /\ \/ /\ nearby_pois = <<<<School, 10004>>, <<Tower, 20000>>>>
        /\ LET added == compute_profile(grid_point, WithPoi(nearby_pois, 2, <<Shop, 0>>))
           IN /\ added.poi_summary.nearest[1].type = "point_of_interest"
              /\ added.poi_summary.nearest # profile.poi_summary.nearest
              /\ added.poi_summary.nearest[2] = profile.poi_summary.nearest[1]
     \/ /\ nearby_pois = <<<<School, 10004>>>>
        /\ LET added == compute_profile(grid_point, WithPoi(nearby_pois, 0, <<Bare, 40016>>))
           IN /\ Len(added.poi_summary.nearest) = 2
              /\ added.poi_summary.nearest[2].type = "unknown"

\* C21: every raw result of a response is parsed into one record, in order;
\* when the call's keyword is a key of the keyword->category lexicon, the
\* record's tag list contains the synthetic category: it is the category
\* followed by the raw tags in their order when the raw tags did not
\* contain it, and the raw tag list when they did; for a type search (no
\* keyword) and for a keyword that is no key of the lexicon the record's
\* tag list is the raw tag list.
SyntheticCategoryFirst ==
  parsed # <<>> =>
    /\ Len(parsed) = Len(raw_results)
    /\ \A k \in DOMAIN raw_results :
         LET raw == raw_results[k].types
             got == parsed[k].types
             category == KEYWORD_TO_TYPE(keyword)
         IN /\ parsed[k].place_id = raw_results[k].place_id
            /\ IF keyword \notin {None, ""} /\ category # None
               THEN /\ category \in Range(got)
                    /\ category \notin Range(raw) =>
                         got = <<category>> \o raw
                    /\ category \in Range(raw) => got = raw
               ELSE got = raw

\* A response to the keyword search "IT park" was parsed: its first result
\* had the raw tags store, residential and got it_park in front of them, its
\* second had store, it_park and kept them.
SyntheticCategoryFirstWitness ==
  /\ keyword = "IT park"
  /\ Len(raw_results) = 2
  /\ raw_results[1].types = <<"store", "residential">>
  /\ raw_results[2].types = <<"store", "it_park">>
  /\ parsed # <<>>
  /\ parsed[1].types = <<"it_park", "store", "residential">>
  /\ parsed[2].types = <<"store", "it_park">>

\* The units whose batch has been merged.
MergedUnits == {u \in DOMAIN tasks : TileOf(u) <= batch_start}

\* The positions of unit u's list that hold a record of place_id p.
ReturnedAt(u, p) == {i \in DOMAIN tasks[u].result : tasks[u].result[i].place_id = p}

\* The record of place_id p of the last unit, in submission order, among the
\* merged units that returned p (the last such record of its list).
KeptRecord(p) ==
  LET u == CHOOSE x \in MergedUnits :
             /\ ReturnedAt(x, p) # {}
             /\ \A y \in MergedUnits : ReturnedAt(y, p) # {} => y <= x
      i == CHOOSE k \in ReturnedAt(u, p) : \A l \in ReturnedAt(u, p) : l <= k
  IN tasks[u].result[i]

\* C22: the merged set is determined by what the units returned and by their
\* submission order (tile order, within a tile the type searches before the
\* keyword searches, batches in order), not by the order in which the
\* lookups completed: after every merge it holds exactly the non-empty
\* place_ids the merged units returned, each with the record of the last
\* unit in submission order that returned it, and the pois table holds the
\* same record; so runs with the same responses and different
\* interleavings end with identical merged sets.
SubmissionOrderMerge ==
  /\ DOMAIN all_pois =
       {p \in UNION {{tasks[u].result[i].place_id : i \in DOMAIN tasks[u].result} :
                       u \in MergedUnits} : p # ""}
  /\ \A p \in DOMAIN all_pois :
       /\ all_pois[p] = KeptRecord(p)
       /\ p \in DOMAIN pois_table
       /\ pois_table[p] = all_pois[p]

\* The keyword search of the first tile returned before its type search,
\* both returned the place_id p1 with different records, and the merge of
\* the batch kept the record of the keyword search, the later of the two in
\* submission order.
SubmissionOrderMergeWitness ==
  /\ batch_start >= 1
  /\ Len(arrival) >= 2
  /\ arrival[1] = 2
  /\ arrival[2] = 1
  /\ Len(tasks[1].result) = 1
  /\ Len(tasks[2].result) = 3
  /\ ReturnedAt(1, "p1") = {1}
  /\ ReturnedAt(2, "p1") = {2}
  /\ tasks[1].result[1] # tasks[2].result[2]
  /\ "p1" \in DOMAIN all_pois
  /\ all_pois["p1"] = tasks[2].result[2]
  /\ all_pois["p1"].name = "n2"

====
